---- MODULE Spec2Model ----
(***************************************************************************)
(* Turbulent round jet analyzer: the calculator service (computeAll,       *)
(* interpolateRhalf) of src/unnamed/part_000 lines 616-846, over the       *)
(* types of src/types.ts.                                                  *)
(*                                                                         *)
(* JavaScript numbers are modelled as decimal floating point values with   *)
(* four significant digits and the IEEE-754 special values NaN, +Infinity  *)
(* and -Infinity.  A finite number is m * 10^e with m = 0 or               *)
(* MantLo <= |m| < MantHi; results are truncated to that precision,        *)
(* overflow to an infinity and underflow to zero at the exponents of a     *)
(* double.  Zero is unsigned (-0 and +0 are one value, as under ===).      *)
(* Text is a sequence of one-character strings.                            *)
(***************************************************************************)
EXTENDS Integers, Sequences, FiniteSets, TLC

----------------------------------------------------------------------------
(* number *)

\* F applied to the values of its arguments, each argument evaluated once
Ev1(F(_), x) == CHOOSE v \in {F(a) : a \in {x}} : TRUE
Ev2(F(_, _), x, y) == CHOOSE v \in {F(a, b) : a \in {x}, b \in {y}} : TRUE
Ev3(F(_, _, _), x, y, z) ==
  CHOOSE v \in {F(a, b, c) : a \in {x}, b \in {y}, c \in {z}} : TRUE

MantLo == 1000
MantHi == 10000
ExpMax == 305
ExpMin == -327

NaN == [k |-> "nan", m |-> 0, e |-> 0]
PInf == [k |-> "pinf", m |-> 0, e |-> 0]
NInf == [k |-> "ninf", m |-> 0, e |-> 0]
Fin(m, e) == [k |-> "fin", m |-> m, e |-> e]
Zero == Fin(0, 0)

Abs(i) == IF i < 0 THEN -i ELSE i
Sgn(i) == IF i < 0 THEN -1 ELSE IF i = 0 THEN 0 ELSE 1
TDiv(a, b) == Sgn(a) * Sgn(b) * (Abs(a) \div Abs(b))

RECURSIVE Pow10(_)
Pow10(n) == IF n <= 0 THEN 1 ELSE 10 * Pow10(n - 1)

RECURSIVE Norm(_, _)
NormOf(m, e) ==
  IF m = 0 THEN Zero
  ELSE IF Abs(m) >= MantHi THEN Norm(TDiv(m, 10), e + 1)
  ELSE IF Abs(m) < MantLo THEN Norm(m * 10, e - 1)
  ELSE IF e > ExpMax THEN (IF m > 0 THEN PInf ELSE NInf)
  ELSE IF e < ExpMin THEN Zero
  ELSE Fin(m, e)

\* the number m * 10^e, truncated to the precision
Norm(m, e) == Ev2(NormOf, m, e)

Num(i) == Norm(i, 0)

isFinite(x) == x.k = "fin"
isNaN(x) == x.k = "nan"
SignOf(x) == IF x.k = "pinf" THEN 1 ELSE IF x.k = "ninf" THEN -1 ELSE Sgn(x.m)

NegOf(x) ==
  CASE x.k = "nan" -> NaN
    [] x.k = "pinf" -> NInf
    [] x.k = "ninf" -> PInf
    [] OTHER -> Fin(-x.m, x.e)
Neg(x) == Ev1(NegOf, x)

\* x === y
FEqOf(x, y) == x.k # "nan" /\ y.k # "nan" /\ x = y
FEq(x, y) == Ev2(FEqOf, x, y)

\* x < y
FLtOf(x, y) ==
  IF x.k = "nan" \/ y.k = "nan" THEN FALSE
  ELSE IF x.k = "pinf" \/ y.k = "ninf" THEN FALSE
  ELSE IF x.k = "ninf" \/ y.k = "pinf" THEN TRUE
  ELSE IF Sgn(x.m) # Sgn(y.m) THEN Sgn(x.m) < Sgn(y.m)
  ELSE IF x.m = 0 THEN FALSE
  ELSE IF x.m > 0 THEN x.e < y.e \/ (x.e = y.e /\ x.m < y.m)
  ELSE x.e > y.e \/ (x.e = y.e /\ x.m < y.m)
FLt(x, y) == Ev2(FLtOf, x, y)

FLeOf(x, y) == FLt(x, y) \/ FEq(x, y)
FLe(x, y) == Ev2(FLeOf, x, y)
FGt(x, y) == FLt(y, x)
FGe(x, y) == FLe(y, x)

\* x + y
AddOf(x, y) ==
  IF x.k = "nan" \/ y.k = "nan" THEN NaN
  ELSE IF x.k # "fin" /\ y.k # "fin" THEN (IF x.k = y.k THEN x ELSE NaN)
  ELSE IF x.k # "fin" THEN x
  ELSE IF y.k # "fin" THEN y
  ELSE IF x.m = 0 THEN y
  ELSE IF y.m = 0 THEN x
  ELSE LET hi == IF x.e >= y.e THEN x ELSE y
           lo == IF x.e >= y.e THEN y ELSE x
           d == hi.e - lo.e
       IN IF d > 5 THEN hi ELSE Norm(hi.m * Pow10(d) + lo.m, lo.e)
Add(x, y) == Ev2(AddOf, x, y)

\* x - y
Sub(x, y) == Add(x, Neg(y))

\* x * y
MulOf(x, y) ==
  IF x.k = "nan" \/ y.k = "nan" THEN NaN
  ELSE IF x.k # "fin" \/ y.k # "fin"
    THEN (IF SignOf(x) * SignOf(y) = 0 THEN NaN
          ELSE IF SignOf(x) * SignOf(y) > 0 THEN PInf ELSE NInf)
  ELSE Norm(x.m * y.m, x.e + y.e)
Mul(x, y) == Ev2(MulOf, x, y)

\* x / y
DivOf(x, y) ==
  IF x.k = "nan" \/ y.k = "nan" THEN NaN
  ELSE IF x.k # "fin" /\ y.k # "fin" THEN NaN
  ELSE IF x.k # "fin"
    THEN (IF SignOf(x) * (IF SignOf(y) < 0 THEN -1 ELSE 1) > 0 THEN PInf ELSE NInf)
  ELSE IF y.k # "fin" THEN Zero
  ELSE IF y.m = 0
    THEN (IF x.m = 0 THEN NaN ELSE IF x.m > 0 THEN PInf ELSE NInf)
  ELSE Norm(TDiv(x.m * MantHi, y.m), x.e - y.e - 4)
Div(x, y) == Ev2(DivOf, x, y)

\* Math.max(0, x)
Max0Of(x) == IF x.k = "nan" THEN NaN ELSE IF FLt(Zero, x) THEN x ELSE Zero
Max0(x) == Ev1(Max0Of, x)

\* Math.abs(x)
FAbsOf(x) == IF SignOf(x) < 0 THEN Neg(x) ELSE x
FAbs(x) == Ev1(FAbsOf, x)

RECURSIVE ISqrtIn(_, _, _)
ISqrtStep(n, lo, hi) ==
  IF hi - lo <= 1 THEN lo
  ELSE IF ((lo + hi) \div 2) * ((lo + hi) \div 2) <= n
       THEN ISqrtIn(n, (lo + hi) \div 2, hi)
       ELSE ISqrtIn(n, lo, (lo + hi) \div 2)

\* the largest k in lo..hi-1 with k * k <= n
ISqrtIn(n, lo, hi) == Ev3(ISqrtStep, n, lo, hi)

ISqrt(n) == ISqrtIn(n, 0, 31623)

\* Math.sqrt(x)
SqrtOf(x) ==
  IF x.k = "nan" \/ x.k = "ninf" THEN NaN
  ELSE IF x.k = "pinf" THEN PInf
  ELSE IF x.m < 0 THEN NaN
  ELSE IF x.m = 0 THEN Zero
  ELSE IF x.e % 2 = 0 THEN Norm(ISqrt(x.m * 10000), (x.e - 4) \div 2)
  ELSE Norm(ISqrt(x.m * 100000), (x.e - 5) \div 2)
Sqrt(x) == Ev1(SqrtOf, x)

\* fixed point, four decimals
FS == 10000
FLn2 == 6931
FLn10 == 23026

RECURSIVE LnReduce(_, _)
LnReduceStep(y, h) == IF y >= 2 * FS THEN LnReduce(y \div 2, h + 1) ELSE <<y, h>>

\* y halved h times until below 2
LnReduce(y, h) == Ev2(LnReduceStep, y, h)

\* ln(y / FS) for FS <= y < 10 * FS, in fixed point
LnSeriesOf(z, h) ==
  LET z2 == (z * z) \div FS
      t3 == (z * z2) \div FS
      t5 == (((z * z2) \div FS) * z2) \div FS
      t7 == (((((z * z2) \div FS) * z2) \div FS) * z2) \div FS
  IN 2 * (z + t3 \div 3 + t5 \div 5 + t7 \div 7) + h * FLn2

LnSeries(z, h) == Ev2(LnSeriesOf, z, h)

LnReduced(yh) == LnSeries(((yh[1] - FS) * FS) \div (yh[1] + FS), yh[2])

LnMant(y) == Ev1(LnReduced, LnReduce(y, 0))

\* Math.log(x)
LogOf(x) ==
  IF x.k = "nan" \/ x.k = "ninf" THEN NaN
  ELSE IF x.k = "pinf" THEN PInf
  ELSE IF x.m < 0 THEN NaN
  ELSE IF x.m = 0 THEN NInf
  ELSE Norm(LnMant(x.m * 10) + (x.e + 3) * FLn10, -4)
Log(x) == Ev1(LogOf, x)

RECURSIVE ExpSeries(_, _)
ExpSeriesStep(g, st) ==
  IF st.n > 8 \/ st.term = 0 THEN st.acc
  ELSE ExpSeries(g, [term |-> (st.term * g) \div (st.n * FS), n |-> st.n + 1,
                     acc |-> st.acc + (st.term * g) \div (st.n * FS)])

\* the Taylor series of exp(g / FS), in fixed point
ExpSeries(g, st) == Ev2(ExpSeriesStep, g, st)

\* exp(fp / FS) for the fixed point value fp: 10^k * 2^j * exp(g / FS)
ExpFixed(fp) ==
  LET k == fp \div FLn10
      f == fp % FLn10
      j == (fp % FLn10) \div FLn2
      g == (fp % FLn10) % FLn2
      p2 == IF j = 0 THEN 1 ELSE IF j = 1 THEN 2 ELSE IF j = 2 THEN 4 ELSE 8
  IN Norm(p2 * ExpSeries(g, [term |-> FS, n |-> 1, acc |-> FS]), k - 4)

\* Math.exp(x)
ExpOf(x) ==
  IF x.k = "nan" THEN NaN
  ELSE IF x.k = "pinf" THEN PInf
  ELSE IF x.k = "ninf" THEN Zero
  ELSE IF x.m = 0 THEN Num(1)
  ELSE IF x.e >= 0 THEN (IF x.m > 0 THEN PInf ELSE Zero)
  ELSE IF x.e < -8 THEN Num(1)
  ELSE Ev1(ExpFixed, IF x.e + 4 >= 0 THEN x.m * Pow10(x.e + 4)
                      ELSE TDiv(x.m, Pow10(-(x.e + 4))))
Exp(x) == Ev1(ExpOf, x)

----------------------------------------------------------------------------
(* text and parseFloat *)

DigitChars == <<"0", "1", "2", "3", "4", "5", "6", "7", "8", "9">>
IsDigit(c) == \E d \in 1..10 : DigitChars[d] = c
DigitVal(c) == (CHOOSE d \in 1..10 : DigitChars[d] = c) - 1
InfinityText == <<"I", "n", "f", "i", "n", "i", "t", "y">>

RECURSIVE SkipSpace(_, _)
SkipSpaceStep(s, i) == IF i <= Len(s) /\ s[i] = " " THEN SkipSpace(s, i + 1) ELSE i

\* the position of the first character of s, from i on, that is not a space
SkipSpace(s, i) == Ev2(SkipSpaceStep, s, i)

HasAt(s, i, w) == i + Len(w) - 1 <= Len(s) /\ SubSeq(s, i, i + Len(w) - 1) = w

RECURSIVE ScanDigits(_, _, _)
ScanDigitsStep(s, c, frac) ==
  IF c.i <= Len(s) /\ IsDigit(s[c.i])
  THEN IF c.m < MantLo
       THEN ScanDigits(s, [i |-> c.i + 1, m |-> c.m * 10 + DigitVal(s[c.i]),
                           e |-> IF frac THEN c.e - 1 ELSE c.e, n |-> c.n + 1], frac)
       ELSE ScanDigits(s, [i |-> c.i + 1, m |-> c.m,
                           e |-> IF frac THEN c.e ELSE c.e + 1, n |-> c.n + 1], frac)
  ELSE c

\* Reads the digits of s from position c.i: the digits read make m * 10^e, of
\* which m keeps four significant digits; n counts the digits read.
ScanDigits(s, c, frac) == Ev3(ScanDigitsStep, s, c, frac)

ScanFrom(i) == [i |-> i, m |-> 0, e |-> 0, n |-> 0]

\* the exponent part at position j of s: 0 unless 'e' or 'E', an optional sign
\* and at least one digit stand there
ExponentAt(s, j) ==
  LET isExp == j <= Len(s) /\ s[j] \in {"e", "E"}
      esigned == j + 1 <= Len(s) /\ s[j + 1] \in {"+", "-"}
      esg == IF esigned /\ s[j + 1] = "-" THEN -1 ELSE 1
  IN IF ~isExp THEN 0
     ELSE Ev1(LAMBDA ex : IF ex.n = 0 THEN 0
                          ELSE esg * (IF ex.e > 0 THEN MantHi - 1 ELSE ex.m),
              ScanDigits(s, ScanFrom(IF esigned THEN j + 2 ELSE j + 1), FALSE))

\* the decimal literal of s at position i1, with sign sg
ParseDecimal(s, i1, sg) ==
  Ev1(LAMBDA ip :
        Ev1(LAMBDA fp : IF ip.n + fp.n = 0 THEN NaN
                        ELSE Norm(sg * fp.m, fp.e + ExponentAt(s, fp.i)),
            IF ip.i <= Len(s) /\ s[ip.i] = "."
            THEN ScanDigits(s, [ip EXCEPT !.i = ip.i + 1, !.n = 0], TRUE)
            ELSE [ip EXCEPT !.n = 0]),
      ScanDigits(s, ScanFrom(i1), FALSE))

ParseSigned(s, i0) ==
  LET signed == i0 <= Len(s) /\ s[i0] \in {"+", "-"}
      sg == IF signed /\ s[i0] = "-" THEN -1 ELSE 1
      i1 == IF signed THEN i0 + 1 ELSE i0
  IN IF HasAt(s, i1, InfinityText) THEN (IF sg < 0 THEN NInf ELSE PInf)
     ELSE ParseDecimal(s, i1, sg)

\* parseFloat(s): the longest prefix of s that is a decimal literal, else NaN
parseFloat(s) == Ev2(ParseSigned, s, SkipSpace(s, 1))

OrElseOf(x, d) == IF isNaN(x) \/ (isFinite(x) /\ x.m = 0) THEN d ELSE x

\* x || d
OrElse(x, d) == Ev2(OrElseOf, x, d)

----------------------------------------------------------------------------
(* calculator *)

mm2m(v) == Div(v, Num(1000))
cm2m(v) == Div(v, Num(100))
kPa2Pa(v) == Mul(v, Num(1000))

PI == Fin(3141, -3)
DefaultRho == Fin(1204, -3)
DefaultDcm == Fin(2540, -3)
Eps12 == Fin(1000, -15)
Half == Fin(5000, -4)

Str(s) == [k |-> "str", s |-> s]

\* step(label, eqn, subs, result, units); the substitution text (subs), a
\* rendering of the operands through pretty(), is not kept.
step(label, eqn, result, units) ==
  [label |-> label, eqn |-> eqn, result |-> result, units |-> units]

EmptyTrace(ref) ==
  [ref |-> ref, globals |-> <<>>, points |-> <<>>, mdot |-> <<>>, I |-> <<>>,
   Uc |-> <<>>, rhalf |-> <<>>, collapse |-> <<>>, mdotSegments |-> <<>>,
   ISegments |-> <<>>, warnings |-> <<>>]

\* one Trace object made before the map and handed to every station
mkTraceShared(n) == EmptyTrace(0)

\* lines 633-644: a new Trace object, every list of it empty; ref is the
\* identity of the object, the number n of the callback invocation that made it
mkTrace(n) == EmptyTrace(n)

WarnDuplicate == "Duplicate r"
WarnNonMonotonic == "Non-monotonic velocity profile detected"
WarnNoUc == "Cannot extrapolate Uc, not enough data points with r>0."
WarnNoRhalf == "Could not determine r1/2 (no crossing of Uc/2)."
WarnNoTail == "Tail correction for integrals skipped (Uc or r1/2 not available)."

\* what reading a property of undefined does: a TypeError
Undefined == [k |-> "undefined"]
At(s, i) == IF i \in 1..Len(s) THEN s[i] ELSE Undefined
IsUndefined(v) == v = Undefined

\* the elements of s, each evaluated once
RECURSIVE Items(_, _, _)
ItemsStep(s, i, acc) == IF i > Len(s) THEN acc ELSE Items(s, i + 1, Append(acc, s[i]))
Items(s, i, acc) == Ev3(ItemsStep, s, i, acc)
Seq0(s) == Items(s, 1, <<>>)

ParseRow(row) == [rmm |-> parseFloat(row.r), dpIn |-> parseFloat(row.dp)]

\* the filter made on the radius alone
IsFiniteRowRadiusOnly(p) == isFinite(p.rmm)

\* line 706
IsFiniteRow(p) == isFinite(p.rmm) /\ isFinite(p.dpIn)

\* lines 704-706: parse every row, keep the rows with finite radius and dp
ParsedRows(st) ==
  SelectSeq(Seq0([i \in 1..Len(st.rows) |-> ParseRow(st.rows[i])]), IsFiniteRow)

\* line 718
Velocity(dpPa, rho) == Sqrt(Max0(Div(Mul(Num(2), dpPa), rho)))

ComputedRowOf(rmm, dpPa, u, unitIsKPa) ==
  [r |-> mm2m(rmm), dpPa |-> dpPa, u |-> u,
   psteps |-> << IF unitIsKPa
                 THEN step("dp convert", "(E1) dp_Pa = 1000*dp_kPa", dpPa, "Pa")
                 ELSE step("dp input", "(E1) dp_Pa = dp_Pa", dpPa, "Pa"),
                 step("Velocity from Pitot", "(E2) u = sqrt(2dp/rho)", u, "m/s") >>]

\* lines 710-722
ComputedRow(p, rho, unitIsKPa) ==
  Ev1(LAMBDA dpPa : Ev1(LAMBDA u : ComputedRowOf(p.rmm, dpPa, u, unitIsKPa),
                        Velocity(dpPa, rho)),
      IF unitIsKPa THEN kPa2Pa(p.dpIn) ELSE p.dpIn)

\* the comparator of line 724: a positive value puts b before a
RowCompare(a, b) == Sub(a.r, b.r)

RECURSIVE InsertRow(_, _)
InsertRowStep(sorted, x) ==
  IF sorted = <<>> THEN <<x>>
  ELSE IF FGt(RowCompare(sorted[Len(sorted)], x), Zero)
       THEN Append(InsertRow(SubSeq(sorted, 1, Len(sorted) - 1), x), sorted[Len(sorted)])
       ELSE Append(sorted, x)

\* x put behind the last row of sorted that the comparator does not put after it
InsertRow(sorted, x) == Ev2(InsertRowStep, sorted, x)

RECURSIVE SortFrom(_, _, _)
SortFromStep(rows, i, acc) ==
  IF i > Len(rows) THEN acc ELSE SortFrom(rows, i + 1, InsertRow(acc, rows[i]))
SortFrom(rows, i, acc) == Ev3(SortFromStep, rows, i, acc)

\* the rows left in the order of the input
SortRowsNone(rows) == rows

\* line 724: Array.prototype.sort is stable
SortRows(rows) == SortFrom(rows, 1, <<>>)

\* the duplicate test made on the pressure instead of the radius
PairWarningsOnDp(acc, prev, cur) ==
  (acc \o (IF FEq(cur.dpPa, prev.dpPa) THEN <<WarnDuplicate>> ELSE <<>>))
      \o (IF FGt(cur.u, prev.u) THEN <<WarnNonMonotonic>> ELSE <<>>)

\* lines 727-730: the warnings of the pair (prev, cur) pushed behind acc
PairWarnings(acc, prev, cur) ==
  (acc \o (IF FEq(cur.r, prev.r) THEN <<WarnDuplicate>> ELSE <<>>))
      \o (IF FGt(cur.u, prev.u) THEN <<WarnNonMonotonic>> ELSE <<>>)

\* lines 726-731; i is the loop index (0-based), rows[i + 1] is computedRows[i]
RECURSIVE ProfileWarnings(_, _, _)
ProfileWarningsStep(rows, i, acc) ==
  IF ~(i < Len(rows)) THEN [threw |-> FALSE, warnings |-> acc]
  ELSE IF IsUndefined(At(rows, i + 1)) \/ IsUndefined(At(rows, i))
       THEN [threw |-> TRUE, warnings |-> acc]
       ELSE ProfileWarnings(rows, i + 1, PairWarnings(acc, rows[i], rows[i + 1]))
ProfileWarnings(rows, i, acc) == Ev3(ProfileWarningsStep, rows, i, acc)

UcResult(Uc, label, eqn, warnings) ==
  [Uc |-> Uc, warnings |-> warnings, steps |-> <<step(label, eqn, Uc, "m/s")>>]

\* lines 742-752: the two innermost rows
Extrapolate(r1, u1, r2, u2, r1_sq, r2_sq) ==
  IF FLt(FAbs(Sub(r1_sq, r2_sq)), Eps12)
  THEN Ev1(LAMBDA Uc : UcResult(Uc, "Centerline (linear fallback)",
                                "(E3i) Uc = u1 + (u2-u1)*(0-r1)/(r2-r1)", <<>>),
           Add(u1, Div(Mul(Sub(u2, u1), Sub(Zero, r1)), Sub(r2, r1))))
  ELSE Ev1(LAMBDA Uc : UcResult(Uc, "Centerline (quadratic extrap.)",
                                "(E3q) u=a*r^2+Uc fit to first 2 pts", <<>>),
           Sub(u1, Mul(Div(Sub(u1, u2), Sub(r1_sq, r2_sq)), r1_sq)))

\* the on-axis sample never taken directly
IsOnAxisNever(r0) == FALSE

\* line 738: r[0] === 0
IsOnAxis(r0) == FEq(r0, Zero)

\* the extrapolation asked for only with more than two rows
CenterlineOffByOne(r, u) ==
  IF Len(r) >= 1 /\ IsOnAxis(r[1])
  THEN UcResult(u[1], "Centerline velocity", "(E3) Uc = u(r=0)", <<>>)
  ELSE IF Len(r) > 2
  THEN Ev2(LAMBDA r1_sq, r2_sq : Extrapolate(r[1], u[1], r[2], u[2], r1_sq, r2_sq),
           Mul(r[1], r[1]), Mul(r[2], r[2]))
  ELSE UcResult(IF Len(u) >= 1 THEN OrElse(u[1], NaN) ELSE NaN,
                "Centerline velocity (assumed)", "(E3) Uc = u(r_min)", <<WarnNoUc>>)

\* lines 736-757: Uc, the step pushed to trace.Uc and the warnings pushed
Centerline(r, u) ==
  IF Len(r) >= 1 /\ IsOnAxis(r[1])
  THEN UcResult(u[1], "Centerline velocity", "(E3) Uc = u(r=0)", <<>>)
  ELSE IF Len(r) >= 2
  THEN Ev2(LAMBDA r1_sq, r2_sq : Extrapolate(r[1], u[1], r[2], u[2], r1_sq, r2_sq),
           Mul(r[1], r[1]), Mul(r[2], r[2]))
  ELSE UcResult(IF Len(u) >= 1 THEN OrElse(u[1], NaN) ELSE NaN,
                "Centerline velocity (assumed)", "(E3) Uc = u(r_min)", <<WarnNoUc>>)

TransformedPoint(ri, ui) ==
  [r2 |-> Mul(ri, ri), lnu |-> IF FGt(ui, Zero) THEN Log(ui) ELSE NInf]
HasFiniteLnu(p) == isFinite(p.lnu)

\* lines 657-658
Transformed(r, u) ==
  SelectSeq(Seq0([i \in 1..Len(r) |-> TransformedPoint(r[i], u[i])]), HasFiniteLnu)

\* the scan run one pair too far
ScanBoundOff(n) == n

\* line 662: the loop runs while i < ScanBound(transformed.length)
ScanBound(n) == n - 1

Found(rHalf, i, label, eqn) ==
  [found |-> TRUE, threw |-> FALSE, val |-> rHalf, at |-> i,
   steps |-> <<step(label, eqn, rHalf, "m")>>]
NotFound == [found |-> FALSE, threw |-> FALSE]
ScanThrew == [found |-> FALSE, threw |-> TRUE]

\* lines 666-668
LogInterpolate(p1, p2, target_lnu) ==
  Sqrt(Add(p1.r2, Mul(Div(Sub(target_lnu, p1.lnu), Sub(p2.lnu, p1.lnu)),
                      Sub(p2.r2, p1.r2))))

\* lines 662-672; i is the loop index (0-based)
RECURSIVE LogScan(_, _, _)
LogScanStep(t, target_lnu, i) ==
  IF ~(i < ScanBound(Len(t))) THEN NotFound
  ELSE IF IsUndefined(At(t, i + 1)) \/ IsUndefined(At(t, i + 2)) THEN ScanThrew
  ELSE IF FGe(t[i + 1].lnu, target_lnu) /\ FLe(t[i + 2].lnu, target_lnu)
  THEN Ev1(LAMBDA rHalf : Found(rHalf, i, "Half-velocity radius (interp.)",
                                "(E4) u(r1/2)=1/2 Uc on ln(u) vs r^2 plot"),
           LogInterpolate(t[i + 1], t[i + 2], target_lnu))
  ELSE LogScan(t, target_lnu, i + 1)
LogScan(t, target_lnu, i) == Ev3(LogScanStep, t, target_lnu, i)

\* lines 678-679
LinearInterpolate(r1, u1, r2, u2, target_u) ==
  Add(r1, Mul(Div(Sub(target_u, u1), Sub(u2, u1)), Sub(r2, r1)))

\* lines 675-683; i is the loop index (0-based)
RECURSIVE LinearScan(_, _, _)
LinearScanStep(ru, target_u, i) ==
  IF ~(i < Len(ru.u) - 1) THEN NotFound
  ELSE IF FGe(ru.u[i + 1], target_u) /\ FLe(ru.u[i + 2], target_u)
  THEN Ev1(LAMBDA rHalf : Found(rHalf, i, "Half-velocity radius (linear fallback)",
                                "(E4) u(r1/2)=1/2 Uc"),
           LinearInterpolate(ru.r[i + 1], ru.u[i + 1], ru.r[i + 2], ru.u[i + 2], target_u))
  ELSE LinearScan(ru, target_u, i + 1)
LinearScan(ru, target_u, i) == Ev3(LinearScanStep, ru, target_u, i)

Unresolved(threw) == [val |-> NaN, steps |-> <<>>, threw |-> threw, method |-> "none"]
Resolved(hit, method) ==
  [val |-> hit.val, steps |-> hit.steps, threw |-> FALSE, method |-> method, at |-> hit.at]

\* lines 674-685: after the ln(u) vs r^2 scan ls
AfterLogScan(ls, ru, target_u) ==
  IF ls.threw THEN Unresolved(TRUE)
  ELSE IF ls.found THEN Resolved(ls, "log")
  ELSE Ev1(LAMBDA fs : IF fs.found THEN Resolved(fs, "linear") ELSE Unresolved(FALSE),
           LinearScan(ru, target_u, 0))

\* lines 654-672
ScanForHalf(ru, target_u) ==
  Ev1(LAMBDA ls : AfterLogScan(ls, ru, target_u),
      LogScan(Transformed(ru.r, ru.u), Log(target_u), 0))

\* the target set at half the dynamic pressure instead of half the velocity
TargetAtHalfPressure(Uc) == Div(Uc, Sqrt(Num(2)))

\* line 654: target_u
Target(Uc) == Div(Uc, Num(2))

\* lines 652-686; method and at record which scan, and which pair of it,
\* produced the value
interpolateRhalf(r, u, Uc) ==
  IF FLe(Uc, Zero) THEN Unresolved(FALSE)
  ELSE Ev2(ScanForHalf, [r |-> r, u |-> u], Target(Uc))

\* dr taken from the outer row to the inner one
SegmentBackward(r, u, h, i) ==
  Ev1(LAMBDA dr :
        Ev1(LAMBDA A : [i |-> i, r_i |-> r[i + 1], u_i |-> u[i + 1], h_i |-> h[i + 1],
                        r_ip1 |-> r[i + 2], u_ip1 |-> u[i + 2], h_ip1 |-> h[i + 2],
                        dr |-> dr, area_i |-> A],
            Mul(Mul(Half, Add(h[i + 1], h[i + 2])), dr)),
      Sub(r[i + 1], r[i + 2]))

\* lines 772-777: segment i of the integrand h
Segment(r, u, h, i) ==
  Ev1(LAMBDA dr :
        Ev1(LAMBDA A : [i |-> i, r_i |-> r[i + 1], u_i |-> u[i + 1], h_i |-> h[i + 1],
                        r_ip1 |-> r[i + 2], u_ip1 |-> u[i + 2], h_ip1 |-> h[i + 2],
                        dr |-> dr, area_i |-> A],
            Mul(Mul(Half, Add(h[i + 1], h[i + 2])), dr)),
      Sub(r[i + 2], r[i + 1]))

AddSegment(acc, seg) ==
  [area |-> Add(acc.area, seg.area_i), segments |-> Append(acc.segments, seg)]

\* lines 770-778: the trapezoid loop over the integrand h (f or g, kept in the
\* segment as h_i and h_ip1); i is the loop index (0-based)
RECURSIVE Trapezoid(_, _, _)
TrapezoidStep(ruh, i, acc) ==
  IF ~(i < Len(ruh.r) - 1) THEN acc
  ELSE Trapezoid(ruh, i + 1, Ev2(AddSegment, acc, Segment(ruh.r, ruh.u, ruh.h, i)))
Trapezoid(ruh, i, acc) == Ev3(TrapezoidStep, ruh, i, acc)

\* the tail correction applied whatever Uc and r1/2 are
TailAppliesAlways(Uc, rHalf, n) == n > 0

\* line 787
TailApplies(Uc, rHalf, n) ==
  isFinite(Uc) /\ isFinite(rHalf) /\ FGt(rHalf, Zero) /\ n > 0

TailTermsOf(B, r_n, rho, Uc) ==
  [mdot |-> Mul(Div(Mul(Mul(PI, rho), Uc), B),
                Exp(Mul(Mul(Neg(B), r_n), r_n))),
   I |-> Mul(Div(Mul(Mul(Mul(PI, rho), Uc), Uc), Mul(Num(2), B)),
             Exp(Mul(Mul(Mul(Num(-2), B), r_n), r_n)))]

\* lines 788-799
TailTerms(r, rho, Uc, rHalf) ==
  Ev2(LAMBDA B, r_n : TailTermsOf(B, r_n, rho, Uc),
      Div(Log(Num(2)), Mul(rHalf, rHalf)), r[Len(r)])

\* the collapse computed whatever r1/2 is
CollapseAlways(rHalf) == TRUE

\* line 805
CollapseApplies(rHalf) == isFinite(rHalf) /\ FGt(rHalf, Zero)

\* lines 805-810
Collapse(r, u, Uc, rHalf) ==
  IF CollapseApplies(rHalf)
  THEN Seq0([i \in 1..Len(r) |-> [xr |-> Div(r[i], rHalf), ur |-> Div(u[i], Uc)]])
  ELSE <<>>

\* lines 817-820: the squared error of the point p
SqErr(p) ==
  Ev1(LAMBDA err : Mul(err, err),
      Sub(p.ur, Exp(Mul(Mul(Neg(Log(Num(2))), p.xr), p.xr))))

AddSqErr(acc, sq) ==
  [sum |-> Add(acc.sum, sq),
   steps |-> Append(acc.steps,
                    step("RMSE point", "(E10) err = ur - exp(-ln(2)*xr^2)", sq, ""))]

\* lines 816-821
RECURSIVE SumSqErr(_, _, _)
SumSqErrStep(collapse, i, acc) ==
  IF i > Len(collapse) THEN acc
  ELSE SumSqErr(collapse, i + 1, Ev2(AddSqErr, acc, SqErr(collapse[i])))
SumSqErr(collapse, i, acc) == Ev3(SumSqErrStep, collapse, i, acc)

RmseOf(sse, n) ==
  Ev1(LAMBDA rmse :
        [rmse |-> rmse,
         steps |-> Append(sse.steps, step("RMSE final", "RMSE=sqrt(sum(err^2)/N)", rmse, ""))],
      Sqrt(Div(sse.sum, Num(n))))

\* lines 813-824
Rmse(collapse) ==
  IF Len(collapse) > 0
  THEN Ev2(RmseOf, SumSqErr(collapse, 1, [sum |-> Zero, steps |-> <<>>]), Len(collapse))
  ELSE [rmse |-> NaN, steps |-> <<>>]

\* the density read from the nozzle diameter field
DensityFromDcm(globals) == OrElse(parseFloat(globals.Dcm), DefaultRho)

\* line 691
Density(globals) == OrElse(parseFloat(globals.rho), DefaultRho)

\* line 692
Diameter(globals) == cm2m(OrElse(parseFloat(globals.Dcm), DefaultDcm))

Null == [tag |-> "null"]
Throw == [tag |-> "throw"]

\* lines 699-702
GlobalSteps(env) ==
  << step("Density", "(G1) rho", env.rho, "kg/m3"),
     step("Diameter", "(G2) D", env.D, "m"),
     step("Pressure Units", "(G3) units", Str(IF env.unitIsKPa THEN "kPa" ELSE "Pa"), "") >>

\* lines 781-802: the steps of trace.mdot or trace.I
FluxSteps(name, trapz, tailOn, tail, total, units) ==
  <<step(name \o " (trapezoid)", "2*pi*sum", trapz, units)>>
    \o (IF tailOn
        THEN << step(name \o " (tail correction)", "tail", tail, units),
                step(name \o " (total)", "trapz + tail", total, units) >>
        ELSE <<>>)

\* lines 804-842: the collapse, the RMSE and the record returned
Assemble(st, env, rows, a, collapse, rm) ==
  [tag |-> "station", id |-> st.id, xd |-> env.xd,
   variac |-> parseFloat(st.variac), port1 |-> parseFloat(st.port1),
   D |-> env.D, rho |-> env.rho, unitIsKPa |-> env.unitIsKPa, rows |-> rows,
   trace |->
     [env.trace EXCEPT
        !.globals = @ \o GlobalSteps(env),
        !.mdot = @ \o FluxSteps("Mass flow", a.mdot_trapz, a.tailOn, a.tail.mdot, a.mdot, "kg/s"),
        !.I = @ \o FluxSteps("Momentum", a.I_trapz, a.tailOn, a.tail.I, a.I, "N"),
        !.Uc = @ \o a.cl.steps,
        !.rhalf = @ \o a.rhalfSteps,
        !.collapse = (@ \o [i \in 1..Len(collapse) |->
                              step("Collapse", "(E9) xr=r/r1/2, ur=u/Uc", collapse[i], "")])
                     \o rm.steps,
        !.mdotSegments = @ \o a.tf.segments,
        !.ISegments = @ \o a.tg.segments,
        !.warnings = @ \o a.warnings],
   Uc |-> a.cl.Uc, rHalf |-> a.rHalf, mdot |-> a.mdot, I |-> a.I,
   collapse |-> collapse, rmse |-> rm.rmse]

WithCollapse(st, env, rows, a, collapse) ==
  Ev1(LAMBDA rm : Assemble(st, env, rows, a, collapse, rm), Rmse(collapse))

\* lines 784-802: the tail correction, given the tail terms
WithTail(st, env, rows, a, tailOn, tail) ==
  Ev2(LAMBDA b, collapse : WithCollapse(st, env, rows, b, collapse),
      [cl |-> a.cl, rHalf |-> a.rHalf, rhalfSteps |-> a.rhalfSteps,
       tf |-> a.tf, tg |-> a.tg, mdot_trapz |-> a.mdot_trapz, I_trapz |-> a.I_trapz,
       tailOn |-> tailOn, tail |-> tail,
       mdot |-> IF tailOn THEN Add(a.mdot_trapz, tail.mdot) ELSE a.mdot_trapz,
       I |-> IF tailOn THEN Add(a.I_trapz, tail.I) ELSE a.I_trapz,
       warnings |-> a.warnings \o (IF tailOn THEN <<>> ELSE <<WarnNoTail>>)],
      Collapse(a.r, a.u, a.cl.Uc, a.rHalf))

\* lines 759-787: r1/2, the trapezoid totals and the decision on the tail
WithFluxes(st, env, rows, a) ==
  Ev2(LAMBDA tailOn, tail : WithTail(st, env, rows, a, tailOn, tail),
      TailApplies(a.cl.Uc, a.rHalf, Len(a.r)),
      IF TailApplies(a.cl.Uc, a.rHalf, Len(a.r))
      THEN TailTerms(a.r, env.rho, a.cl.Uc, a.rHalf)
      ELSE [mdot |-> Zero, I |-> Zero])

\* lines 759-782
WithRhalf(st, env, rows, r, u, pw, cl, ir) ==
  Ev1(LAMBDA a : WithFluxes(st, env, rows, a),
      LET tf == Trapezoid([r |-> r, u |-> u,
                           h |-> Seq0([i \in 1..Len(r) |-> Mul(Mul(env.rho, u[i]), r[i])])],
                          0, [area |-> Zero, segments |-> <<>>])
          tg == Trapezoid([r |-> r, u |-> u,
                           h |-> Seq0([i \in 1..Len(r) |->
                                         Mul(Mul(Mul(env.rho, u[i]), u[i]), r[i])])],
                          0, [area |-> Zero, segments |-> <<>>])
      IN Ev2(LAMBDA f, g :
               [r |-> r, u |-> u, cl |-> cl,
                rHalf |-> IF isFinite(ir.val) THEN ir.val ELSE NaN,
                rhalfSteps |-> IF isFinite(ir.val) THEN ir.steps
                               ELSE Append(ir.steps,
                                           step("Half-velocity radius", "(E4) not found",
                                                NaN, "m")),
                tf |-> f, tg |-> g,
                mdot_trapz |-> Mul(Mul(Num(2), PI), f.area),
                I_trapz |-> Mul(Mul(Num(2), PI), g.area),
                warnings |-> (pw.warnings \o cl.warnings)
                             \o (IF isFinite(ir.val) THEN <<>> ELSE <<WarnNoRhalf>>)],
             tf, tg))

\* lines 736-765
WithCenterline(st, env, rows, r, u, pw, cl) ==
  Ev1(LAMBDA ir : IF pw.threw \/ ir.threw THEN Throw
                  ELSE WithRhalf(st, env, rows, r, u, pw, cl, ir),
      interpolateRhalf(r, u, cl.Uc))

\* lines 726-734
WithRows(st, env, rows, r, u) ==
  Ev2(LAMBDA pw, cl : WithCenterline(st, env, rows, r, u, pw, cl),
      ProfileWarnings(rows, 1, <<>>), Centerline(r, u))

\* lines 724-842: the analysis of the sorted computed rows of one station
Analyse(st, env, rows) ==
  Ev2(LAMBDA r, u : WithRows(st, env, rows, r, u),
      Seq0([i \in 1..Len(rows) |-> rows[i].r]), Seq0([i \in 1..Len(rows) |-> rows[i].u]))

\* line 708
MinRows == 2

\* a station kept with a single valid row
TooFewRowsLax(parsedRows) == Len(parsedRows) < MinRows - 1

\* line 708: parsedRows.length < 2
TooFewRows(parsedRows) == Len(parsedRows) < MinRows

\* lines 704-724
ComputeRows(st, env, parsedRows) ==
  IF TooFewRows(parsedRows) THEN Null
  ELSE Ev1(LAMBDA rows : Analyse(st, env, rows),
           SortRows(Seq0([i \in 1..Len(parsedRows) |->
                            ComputedRow(parsedRows[i], env.rho, env.unitIsKPa)])))

\* lines 690-693, 696 and 698: the numbers parsed from the settings and from
\* x/D, and the Trace of invocation n of the callback
Env(st, globals, n) ==
  [rho |-> Density(globals), D |-> Diameter(globals),
   unitIsKPa |-> globals.pUnits = "kpa", xd |-> parseFloat(st.xd),
   trace |-> mkTrace(n)]

\* lines 695-842: invocation n of the callback of stations.map
ComputeStation(st, globals, n) ==
  Ev1(LAMBDA env : IF ~isFinite(env.xd) THEN Null
                   ELSE Ev1(LAMBDA parsedRows : ComputeRows(st, env, parsedRows),
                            ParsedRows(st)),
      Env(st, globals, n))

\* the surviving stations in the reverse of the order of the input
SurvivorsReversed(mapped) ==
  LET kept == SelectSeq(mapped, LAMBDA c : c # Null)
  IN [i \in 1..Len(kept) |-> kept[Len(kept) + 1 - i]]

\* the value of stations.map returned without the filter
SurvivorsUnfiltered(mapped) == mapped

\* line 843
Survivors(mapped) == SelectSeq(mapped, LAMBDA c : c # Null)

\* the traces emptied when the settings do not ask for the steps
ReturnsWithoutSteps(mapped, globals) ==
  IF \E i \in 1..Len(mapped) : mapped[i] = Throw
  THEN [raised |-> TRUE, globals |-> globals, results |-> <<>>]
  ELSE [raised |-> FALSE, globals |-> globals,
        results |-> IF globals.showSteps THEN Survivors(mapped)
                    ELSE [i \in 1..Len(Survivors(mapped)) |->
                            [Survivors(mapped)[i] EXCEPT !.trace = EmptyTrace(@.ref)]]]

\* lines 843-845, given the value of stations.map
Returns(mapped, globals) ==
  IF \E i \in 1..Len(mapped) : mapped[i] = Throw
  THEN [raised |-> TRUE, globals |-> globals, results |-> <<>>]
  ELSE [raised |-> FALSE, globals |-> globals, results |-> Survivors(mapped)]

\* lines 689-846
computeAll(sts, globals) ==
  Ev2(Returns, Seq0([i \in 1..Len(sts) |-> ComputeStation(sts[i], globals, i)]), globals)

\* st.rows as a sort of st.rows itself by the parsed radius would leave it
RowsSortedInPlace(st) ==
  LET keyed == SortRows(Seq0([i \in 1..Len(st.rows) |->
                                [r |-> parseFloat(st.rows[i].r), row |-> st.rows[i]]]))
  IN Seq0([i \in 1..Len(keyed) |-> keyed[i].row])

\* lines 704-724: st.rows as the callback leaves it. st.rows is the receiver of
\* map alone, which returns a new array; filter, the second map and the
\* in-place sort of line 724 act on the arrays built in the call
RowsAfter(st) == st.rows

\* lines 689-845: the arguments as the call leaves them. stations is the
\* receiver of map alone and no property of a station is assigned; globals is
\* destructured at line 690 and returned at line 845
InputsAfter(sts, globals) ==
  [stations |-> Seq0([i \in 1..Len(sts) |-> [sts[i] EXCEPT !.rows = RowsAfter(sts[i])]]),
   globals |-> globals]

\* line 336 of Report: the appendix of step-by-step calculations is rendered
\* when globals.showSteps holds
AppendixShown(results) == results.globals.showSteps

----------------------------------------------------------------------------
(* inputs *)

MaxRows == 3
MaxStations == 3

T_empty == <<>>
T_0 == <<"0">>
T_1 == <<"1">>
T_2 == <<"2">>
T_4 == <<"4">>
T_5 == <<"5">>
T_9 == <<"9", ".", "0">>
T_10 == <<"1", "0">>
T_m1 == <<"-", "1">>
T_m5 == <<"-", "5">>
T_x == <<"x">>
T_5mm == <<"5", "m", "m">>
T_xd == <<"8", ".", "5">>
T_rho == <<"1", ".", "2", "0", "4">>
T_Dcm == <<"2", ".", "5", "4">>

RowText(r, dp) == [r |-> r, dp |-> dp]

\* (radius text, dp text) pairs a row is drawn from: on-axis, off-axis,
\* repeated and negative radii; positive, zero and negative dp; text that
\* does not parse and text of which only a prefix parses
RowPool ==
  { RowText(T_0, T_4), RowText(T_5, T_4), RowText(T_5mm, T_1), RowText(T_10, T_1),
    RowText(T_10, T_0), RowText(T_m5, T_1), RowText(T_5, T_m1),
    RowText(T_x, T_1), RowText(T_10, T_empty) }

MkRows(f) == [i \in DOMAIN f |-> [id |-> i, r |-> f[i].r, dp |-> f[i].dp]]

RowSeqs == UNION { { MkRows(f) : f \in [1..n -> RowPool] } : n \in 0..MaxRows }

Settings(rho, Dcm, pUnits, showSteps) ==
  [rho |-> rho, Dcm |-> Dcm, pUnits |-> pUnits, contraction |-> T_9,
   showSteps |-> showSteps]

SettingsPool ==
  { Settings(T_rho, T_Dcm, "kpa", TRUE),
    Settings(T_2, T_Dcm, "pa", TRUE),
    Settings(T_empty, T_empty, "pa", FALSE),
    Settings(T_m1, T_m1, "pa", TRUE),
    Settings(InfinityText, InfinityText, "kpa", TRUE),
    Settings(T_0, T_0, "pa", FALSE) }

\* station shapes of a batch: two usable stations (one with its rows out of
\* order), one with two samples at one radius, one with a single valid row,
\* one with no x/D, one without rows
ShapePool ==
  { [xd |-> T_xd, rows |-> <<RowText(T_0, T_4), RowText(T_5, T_1)>>],
    [xd |-> T_xd, rows |-> <<RowText(T_10, T_1), RowText(T_0, T_4), RowText(T_5, T_4)>>],
    [xd |-> T_xd, rows |-> <<RowText(T_10, T_0), RowText(T_10, T_1)>>],
    [xd |-> T_xd, rows |-> <<RowText(T_0, T_4), RowText(T_x, T_1)>>],
    [xd |-> T_empty, rows |-> <<RowText(T_0, T_4), RowText(T_5, T_1)>>],
    [xd |-> T_xd, rows |-> <<>>] }

MkStation(i, xd, rows) ==
  [id |-> i, xd |-> xd, variac |-> T_empty, port1 |-> T_empty, rows |-> rows]

Batches ==
  UNION { { [i \in 1..n |-> MkStation(i, f[i].xd, MkRows(f[i].rows))] :
            f \in [1..n -> ShapePool] } : n \in 0..MaxStations }

Txt(a, b, c) == <<"0", ".", a, b, c>>

\* src/App.tsx lines 18-62, the stations the application starts with
initialStations ==
  << MkStation(1, <<"8", ".", "5">>,
       MkRows(<< RowText(T_0, Txt("2", "7", "8")), RowText(T_5, Txt("2", "4", "4")),
                 RowText(T_10, Txt("1", "2", "4")), RowText(<<"1", "5">>, Txt("0", "3", "5")),
                 RowText(<<"2", "0">>, Txt("0", "2", "0")),
                 RowText(<<"3", "0">>, Txt("0", "0", "2")) >>)),
     MkStation(2, <<"1", "8", ".", "5">>,
       MkRows(<< RowText(T_0, Txt("1", "9", "5")), RowText(T_5, Txt("1", "4", "5")),
                 RowText(T_10, Txt("1", "1", "0")), RowText(<<"1", "5">>, Txt("0", "6", "0")),
                 RowText(<<"2", "0">>, Txt("0", "2", "5")),
                 RowText(<<"2", "5">>, Txt("0", "1", "6")),
                 RowText(<<"3", "0">>, Txt("0", "1", "0")) >>)),
     MkStation(3, <<"2", "8", ".", "5">>,
       MkRows(<< RowText(T_0, Txt("1", "0", "0")), RowText(T_5, Txt("0", "6", "5")),
                 RowText(<<"1", "4">>, Txt("0", "4", "5")),
                 RowText(<<"2", "1">>, Txt("0", "2", "2")),
                 RowText(<<"2", "8">>, Txt("0", "1", "2")),
                 RowText(<<"3", "5">>, Txt("0", "0", "5")) >>)) >>

\* a profile that is flat at half the extrapolated centerline velocity: with
\* rho = 2 in Pa mode u = 7, 0, 8, 8 m/s at 3, 4, 5, 6 mm, and Uc = 16 m/s
FlatAtTarget ==
  MkStation(1, T_xd,
    MkRows(<< RowText(<<"3">>, <<"4", "9">>), RowText(T_4, T_0),
              RowText(T_5, <<"6", "4">>), RowText(<<"6">>, <<"6", "4">>) >>))

\* a profile entered with negative radii: u is the same at -10 and -5 mm and
\* zero at -1 mm
NegativeRadii ==
  MkStation(1, T_xd,
    MkRows(<< RowText(<<"-", "1", "0">>, T_4), RowText(T_m5, T_4), RowText(T_m1, T_0) >>))

NoResults == [raised |-> FALSE, globals |-> Settings(T_empty, T_empty, "pa", FALSE),
              results |-> <<>>]

----------------------------------------------------------------------------
(* the call *)

\* stations, globals: the station list and the settings; called, ret: whether
\* the latest handler run called computeAll, and what the call returned;
\* computedResults: the result set displayed; alert: the message the latest
\* handler run showed; edits: the number of edits made to the inputs
VARIABLES stations, globals, called, ret, computedResults, alert, edits
vars == <<stations, globals, called, ret, computedResults, alert, edits>>

NoAlert == ""

Init ==
  /\ globals \in SettingsPool
  /\ \/ \E rows \in RowSeqs : stations = <<MkStation(1, T_xd, rows)>>
     \/ stations \in Batches
     \/ stations = initialStations
     \/ stations = <<FlatAtTarget>>
     \/ stations = <<NegativeRadii>>
  /\ called = FALSE
  /\ ret = NoResults
  /\ computedResults = Null
  /\ alert = NoAlert
  /\ edits = 0

\* const results = computeAll(stations, globals)
Compute ==
  /\ ~called
  /\ called' = TRUE
  /\ ret' = computeAll(stations, globals)
  /\ stations' = InputsAfter(stations, globals).stations
  /\ globals' = InputsAfter(stations, globals).globals
  /\ UNCHANGED <<computedResults, alert, edits>>

Next == Compute

Spec == Init /\ [][Next]_vars

----------------------------------------------------------------------------
(* the host application *)

MaxEdits == 3

\* src/App.tsx lines 66-72
initialGlobalSettings == Settings(T_rho, T_Dcm, "kpa", TRUE)

\* src/App.tsx line 80
EmptyBatchMessage == "Please add at least one station with 2 or more valid data rows."

\* uuidv4(): an id that none of the items has
FreshId(items) ==
  1 + CHOOSE m \in {0} \cup {items[i].id : i \in 1..Len(items)} :
        \A i \in 1..Len(items) : items[i].id <= m

IsSpace(c) == c \in {" ", "\t", "\n", "\r"}
Blanks(text) == {i \in 1..Len(text) : IsSpace(text[i])}
First(S) == CHOOSE i \in S : \A j \in S : i <= j

\* String.prototype.split("\n")
RECURSIVE SplitLines(_)
SplitLines(text) ==
  LET nl == {i \in 1..Len(text) : text[i] = "\n"}
  IN IF nl = {} THEN <<text>>
     ELSE <<SubSeq(text, 1, First(nl) - 1)>>
            \o SplitLines(SubSeq(text, First(nl) + 1, Len(text)))

\* String.prototype.split(/\s+/)
RECURSIVE SplitBlanks(_)
SplitBlanks(line) ==
  IF Blanks(line) = {} THEN <<line>>
  ELSE LET k == First(Blanks(line))
           rest == {i \in (k + 1)..Len(line) : ~IsSpace(line[i])}
           m == IF rest = {} THEN Len(line) + 1 ELSE First(rest)
       IN <<SubSeq(line, 1, k - 1)>> \o SplitBlanks(SubSeq(line, m, Len(line)))

\* part_000 lines 466-470: pastedRows
PastedRows(pasteData) ==
  LET lines == SelectSeq(SplitLines(pasteData),
                         LAMBDA line : Blanks(line) # 1..Len(line))
  IN [i \in 1..Len(lines) |->
        LET cols == SplitBlanks(lines[i])
        IN [id |-> i, r |-> cols[1],
            dp |-> IF Len(cols) >= 2 THEN cols[2] ELSE T_empty]]

\* part_000 lines 559-561: setStations(prev => prev.map(...))
updateStation(prev, id, updatedStation) ==
  [i \in 1..Len(prev) |-> IF prev[i].id = id THEN updatedStation ELSE prev[i]]

\* a handler that edits the inputs: the state it sets, and the result of the
\* latest call and its message gone with the handler that made it
Edit(newStations, newGlobals) ==
  /\ edits < MaxEdits
  /\ edits' = edits + 1
  /\ stations' = newStations
  /\ globals' = newGlobals
  /\ called' = FALSE
  /\ ret' = NoResults
  /\ alert' = NoAlert
  /\ UNCHANGED computedResults

\* part_000 lines 443-445
handleStationChange(i, field, value) ==
  Edit(updateStation(stations, stations[i].id, [stations[i] EXCEPT ![field] = value]),
       globals)

\* part_000 lines 447-451
handleRowChange(i, rowIndex, field, value) ==
  Edit(updateStation(stations, stations[i].id,
                     [stations[i] EXCEPT !.rows[rowIndex][field] = value]),
       globals)

\* part_000 lines 453-456
addRow(i) ==
  Edit(updateStation(stations, stations[i].id,
                     [stations[i] EXCEPT
                        !.rows = Append(@, [id |-> FreshId(@), r |-> T_empty, dp |-> T_empty])]),
       globals)

\* part_000 lines 458-461; the button is rendered when the station has more
\* than one row (line 517)
removeRow(i, rowIndex) ==
  /\ Len(stations[i].rows) > 1
  /\ Edit(updateStation(stations, stations[i].id,
                        [stations[i] EXCEPT
                           !.rows = SubSeq(@, 1, rowIndex - 1) \o SubSeq(@, rowIndex + 1, Len(@))]),
          globals)

\* part_000 lines 463-476; onPaste is set on the r input of the first row
\* (line 507)
handlePaste(i, pasteData) ==
  /\ Len(stations[i].rows) >= 1
  /\ IF Len(PastedRows(pasteData)) > 0
     THEN Edit(updateStation(stations, stations[i].id,
                             [stations[i] EXCEPT !.rows = PastedRows(pasteData)]),
               globals)
     ELSE Edit(stations, globals)

\* part_000 lines 544-546
handleGlobalChange(field, value) == Edit(stations, [globals EXCEPT ![field] = value])

\* String(xdVal) for the x/D of an Add button
RECURSIVE DecimalText(_)
DecimalText(n) ==
  (IF n >= 10 THEN DecimalText(n \div 10) ELSE <<>>) \o <<DigitChars[(n % 10) + 1]>>

\* part_000 lines 548-557; xdVal = 0 stands for the call without an argument,
\* which xdVal ? String(xdVal) : '' treats alike
addStation(xdVal) ==
  Edit(Append(stations,
              [id |-> FreshId(stations),
               xd |-> IF xdVal # 0 THEN DecimalText(xdVal) ELSE T_empty,
               variac |-> T_empty, port1 |-> T_empty,
               rows |-> << [id |-> 1, r |-> T_0, dp |-> T_empty],
                           [id |-> 2, r |-> T_empty, dp |-> T_empty] >>]),
       globals)

\* part_000 lines 563-565
removeStation(id) == Edit(SelectSeq(stations, LAMBDA s : s.id # id), globals)

\* the result set displayed whatever the call returned
DisplayedAlways(results, shown) == results

\* src/App.tsx lines 79-83: the result set displayed after handleCompute
Displayed(results, shown) == IF Len(results.results) = 0 THEN shown ELSE results

\* src/App.tsx lines 77-87
handleCompute ==
  /\ called' = TRUE
  /\ ret' = computeAll(stations, globals)
  /\ stations' = InputsAfter(stations, globals).stations
  /\ globals' = InputsAfter(stations, globals).globals
  /\ computedResults' = IF ret'.raised THEN computedResults
                        ELSE Displayed(ret', computedResults)
  /\ alert' = IF ~ret'.raised /\ Len(ret'.results) = 0 THEN EmptyBatchMessage
              ELSE NoAlert
  /\ UNCHANGED edits

\* the inputs the handlers are run with
AddChoices == {0, 10}
StationEdits == { [field |-> "xd", value |-> T_empty] }
RowEdits == { [field |-> "dp", value |-> T_empty] }
PastePool == { <<"0", " ", "4", "\n", "5", "\t", "1", "\n">>, <<" ", "x">>, <<" ", "\n">> }
GlobalEdits == { [field |-> "showSteps", value |-> FALSE],
                 [field |-> "pUnits", value |-> "pa"] }
\* the station cards whose rows are edited: the first one
RowCards == {i \in 1..Len(stations) : i = 1}

AppInit ==
  /\ stations = initialStations
  /\ globals = initialGlobalSettings
  /\ computedResults = Null
  /\ called = FALSE
  /\ ret = NoResults
  /\ alert = NoAlert
  /\ edits = 0

AppNext ==
  \/ handleCompute
  \/ \E e \in GlobalEdits : handleGlobalChange(e.field, e.value)
  \/ \E xdVal \in AddChoices : addStation(xdVal)
  \/ \E i \in 1..Len(stations) : removeStation(stations[i].id)
  \/ \E i \in 1..Len(stations) : \E e \in StationEdits : handleStationChange(i, e.field, e.value)
  \/ \E i \in RowCards : \E e \in RowEdits : handleRowChange(i, 1, e.field, e.value)
  \/ \E i \in RowCards : addRow(i)
  \/ \E i \in RowCards : removeRow(i, Len(stations[i].rows))
  \/ \E i \in RowCards : \E pasteData \in PastePool : handlePaste(i, pasteData)

AppSpec == AppInit /\ [][AppNext]_vars

----------------------------------------------------------------------------
(* properties *)

Returned == called /\ ~ret.raised
Results == ret.results
ResultIx == 1..Len(ret.results)
IdPositions(id) == {i \in 1..Len(stations) : stations[i].id = id}
PositionOf(id) == CHOOSE i \in IdPositions(id) : TRUE
ValidRows(st) ==
  {i \in 1..Len(st.rows) :
     isFinite(parseFloat(st.rows[i].r)) /\ isFinite(parseFloat(st.rows[i].dp))}
IsReturned(st) == \E j \in ResultIx : Results[j].id = st.id
HasWarning(R, w) == \E i \in 1..Len(R.trace.warnings) : R.trace.warnings[i] = w
RadiiOf(R) == [i \in 1..Len(R.rows) |-> R.rows[i].r]

\* C1: the results are stations of the input, in the input's order, each at
\* most once: a result that comes before another comes from an earlier input
\* position.
C1_OrderPreserved ==
  Returned =>
    /\ \A j \in ResultIx : IdPositions(Results[j].id) # {}
    /\ \A j, k \in ResultIx :
         j < k => PositionOf(Results[j].id) < PositionOf(Results[k].id)

\* C1 witness: a batch with a dropped station ahead of two returned ones.
C1_Witness ==
  /\ Returned
  /\ Len(Results) >= 2
  /\ Len(stations) > Len(Results)
  /\ ~IsReturned(stations[1])

\* C2 as stated: a station is returned if and only if at least 2 of its rows
\* have a radius and a dp that both parse to finite numbers.
C2_ReturnedIffTwoValidRows ==
  Returned =>
    \A i \in 1..Len(stations) :
      IsReturned(stations[i]) <=> Cardinality(ValidRows(stations[i])) >= 2

\* C2 amended: a station is returned if and only if its x/D parses to a finite
\* number and at least 2 of its rows have a radius and a dp that both parse to
\* finite numbers.
C2_ReturnedIffXdAndTwoValidRows ==
  Returned =>
    \A i \in 1..Len(stations) :
      IsReturned(stations[i]) <=>
        /\ isFinite(parseFloat(stations[i].xd))
        /\ Cardinality(ValidRows(stations[i])) >= 2

\* C2 witness: one call that returns a station with exactly 2 valid rows,
\* drops one with x/D and a single valid row, and drops one with 2 valid rows
\* and no x/D.
C2_Witness ==
  /\ Returned
  /\ \E i \in 1..Len(stations) :
       IsReturned(stations[i]) /\ Cardinality(ValidRows(stations[i])) = 2
  /\ \E i \in 1..Len(stations) :
       /\ ~IsReturned(stations[i])
       /\ isFinite(parseFloat(stations[i].xd))
       /\ Cardinality(ValidRows(stations[i])) = 1
  /\ \E i \in 1..Len(stations) :
       /\ ~IsReturned(stations[i])
       /\ ~isFinite(parseFloat(stations[i].xd))
       /\ Cardinality(ValidRows(stations[i])) = 2

\* C3: the rows of every returned station are in ascending order of radius.
C3_RowsSorted ==
  Returned =>
    \A j \in ResultIx :
      \A i \in 1..(Len(Results[j].rows) - 1) :
        FLe(Results[j].rows[i].r, Results[j].rows[i + 1].r)

\* C3 witness: a returned station whose input rows had a larger radius ahead
\* of a smaller one.
C3_Witness ==
  /\ Returned
  /\ \E j \in ResultIx :
       LET st == stations[PositionOf(Results[j].id)]
       IN \E a, b \in ValidRows(st) :
            a < b /\ FGt(parseFloat(st.rows[a].r), parseFloat(st.rows[b].r))

\* C4: the call returns and does not raise, whatever the text of the inputs;
\* r1/2 and RMSE of a returned station are numbers, NaN when unresolved, and
\* r1/2 is never an infinity.
C4_NeverRaises ==
  called =>
    /\ ~ret.raised
    /\ ret.globals = globals
    /\ \A j \in ResultIx :
         /\ Results[j].rHalf.k \in {"fin", "nan"}
         /\ Results[j].rmse.k \in {"fin", "nan", "pinf"}
         /\ (Results[j].collapse = <<>> => isNaN(Results[j].rmse))

\* C4 witness: a call returned a station with text that does not parse among
\* its rows and with r1/2 unresolved.
C4_Witness ==
  /\ Returned
  /\ \E j \in ResultIx :
       LET st == stations[PositionOf(Results[j].id)]
       IN /\ isNaN(Results[j].rHalf)
          /\ isNaN(Results[j].rmse)
          /\ Cardinality(ValidRows(st)) < Len(st.rows)

IsPositiveFinite(x) == isFinite(x) /\ FGt(x, Zero)

\* C5: the density and the diameter used are finite and positive: the parsed
\* setting when that is finite and positive, else the default 1.204 and the
\* default 2.54 cm.
C5_DefaultsForInvalidSettings ==
  Returned =>
    \A j \in ResultIx :
      LET pr == parseFloat(globals.rho)
          pd == parseFloat(globals.Dcm)
      IN /\ IsPositiveFinite(Results[j].rho)
         /\ IsPositiveFinite(Results[j].D)
         /\ Results[j].rho = (IF IsPositiveFinite(pr) THEN pr ELSE DefaultRho)
         /\ Results[j].D = cm2m(IF IsPositiveFinite(pd) THEN pd ELSE DefaultDcm)

\* C6: the velocity of every computed row is not NaN and not negative: it is
\* sqrt(2*dpPa/rho) when dpPa >= 0 and 0 when dpPa < 0.
C6_VelocityClamped ==
  Returned =>
    \A j \in ResultIx :
      \A i \in 1..Len(Results[j].rows) :
        LET row == Results[j].rows[i]
        IN /\ ~isNaN(row.u)
           /\ FGe(row.u, Zero)
           /\ (FGe(row.dpPa, Zero) =>
                 row.u = Sqrt(Div(Mul(Num(2), row.dpPa), Results[j].rho)))
           /\ (FLt(row.dpPa, Zero) => row.u = Zero)

\* C7: every computed row of every returned station has radius >= 0.
C7_RadiusNonNegative ==
  Returned =>
    \A j \in ResultIx :
      \A i \in 1..Len(Results[j].rows) : FGe(Results[j].rows[i].r, Zero)

\* C8: when the first sorted row of a returned station is at radius 0, Uc is
\* that row's velocity, taken directly, and trace.Uc holds that one step.
C8_UcOnAxis ==
  Returned =>
    \A j \in ResultIx :
      LET R == Results[j]
      IN FEq(R.rows[1].r, Zero) =>
           /\ R.Uc = R.rows[1].u
           /\ Len(R.trace.Uc) = 1
           /\ R.trace.Uc[1].label = "Centerline velocity"
           /\ R.trace.Uc[1].result = R.rows[1].u

\* C8 witness: a returned station whose first row is on the axis and has a
\* velocity that differs from the next row's.
C8_Witness ==
  /\ Returned
  /\ \E j \in ResultIx :
       /\ FEq(Results[j].rows[1].r, Zero)
       /\ FGt(Results[j].rows[1].u, Zero)
       /\ Results[j].rows[2].u # Results[j].rows[1].u

TailExpected(R) == isFinite(R.Uc) /\ isFinite(R.rHalf) /\ FGt(R.rHalf, Zero)

\* C9: the tail correction is applied exactly when Uc and r1/2 are finite and
\* r1/2 > 0: then mdot and I are the trapezoid totals plus the tail terms;
\* otherwise they are the trapezoid totals and the skipped warning is
\* recorded.
C9_TailCorrection ==
  Returned =>
    \A j \in ResultIx :
      LET R == Results[j]
          mdot_trapz == R.trace.mdot[1].result
          I_trapz == R.trace.I[1].result
      IN IF TailExpected(R)
         THEN LET tail == TailTerms(RadiiOf(R), R.rho, R.Uc, R.rHalf)
              IN /\ R.mdot = Add(mdot_trapz, tail.mdot)
                 /\ R.I = Add(I_trapz, tail.I)
                 /\ Len(R.trace.mdot) = 3 /\ R.trace.mdot[2].result = tail.mdot
                 /\ Len(R.trace.I) = 3 /\ R.trace.I[2].result = tail.I
                 /\ ~HasWarning(R, WarnNoTail)
         ELSE /\ R.mdot = mdot_trapz
              /\ R.I = I_trapz
              /\ Len(R.trace.mdot) = 1
              /\ Len(R.trace.I) = 1
              /\ HasWarning(R, WarnNoTail)

\* C9 witness: a returned station with the correction applied and a tail
\* term that is not zero.
C9_Witness ==
  /\ Returned
  /\ \E j \in ResultIx :
       /\ TailExpected(Results[j])
       /\ Results[j].mdot # Results[j].trace.mdot[1].result
       /\ isFinite(Results[j].mdot)

\* C9 witness of the other case: a returned station with Uc finite and r1/2
\* unresolved, left at the trapezoid totals.
C9_SkippedWitness ==
  /\ Returned
  /\ \E j \in ResultIx :
       /\ isFinite(Results[j].Uc)
       /\ isNaN(Results[j].rHalf)
       /\ FGt(Results[j].mdot, Zero)

\* C10: with r1/2 unresolved the warning is recorded, collapse is empty and
\* RMSE is NaN; with r1/2 resolved and positive collapse has one point per
\* row, in row order, and RMSE is not NaN; RMSE is NaN exactly when collapse
\* is empty.
C10_CollapseAndRmse ==
  Returned =>
    \A j \in ResultIx :
      LET R == Results[j]
      IN /\ isNaN(R.rHalf) =>
              /\ HasWarning(R, WarnNoRhalf)
              /\ R.collapse = <<>>
              /\ isNaN(R.rmse)
         /\ (isFinite(R.rHalf) /\ FGt(R.rHalf, Zero)) =>
              /\ Len(R.collapse) = Len(R.rows)
              /\ \A i \in 1..Len(R.rows) :
                   /\ R.collapse[i].xr = Div(R.rows[i].r, R.rHalf)
                   /\ R.collapse[i].ur = Div(R.rows[i].u, R.Uc)
              /\ ~isNaN(R.rmse)
         /\ isNaN(R.rmse) <=> R.collapse = <<>>

\* C10 witness: a returned station with r1/2 resolved, three collapse points
\* and a finite RMSE.
C10_Witness ==
  /\ Returned
  /\ \E j \in ResultIx :
       /\ FGt(Results[j].rHalf, Zero)
       /\ Len(Results[j].collapse) = 3
       /\ isFinite(Results[j].rmse)

CountWarnings(R, w) ==
  Cardinality({i \in 1..Len(R.trace.warnings) : R.trace.warnings[i] = w})
SortedPairs(R) == 2..Len(R.rows)

\* C11: the number of non-monotonic warnings of a returned station is the
\* number of consecutive sorted pairs whose second row is at a larger radius
\* and has a larger velocity than the first; a pair of rows at one radius gives
\* no such warning.
C11_NonMonotonicWarnings ==
  Returned =>
    \A j \in ResultIx :
      LET R == Results[j]
      IN CountWarnings(R, WarnNonMonotonic) =
           Cardinality({i \in SortedPairs(R) :
                          /\ FGt(R.rows[i].r, R.rows[i - 1].r)
                          /\ FGt(R.rows[i].u, R.rows[i - 1].u)})

\* C12: the number of duplicate-radius warnings of a returned station is the
\* number of consecutive sorted pairs of equal radius, zero when the radii
\* are all different.
C12_DuplicateWarnings ==
  Returned =>
    \A j \in ResultIx :
      LET R == Results[j]
      IN CountWarnings(R, WarnDuplicate) =
           Cardinality({i \in SortedPairs(R) : FEq(R.rows[i].r, R.rows[i - 1].r)})

\* C12 witness: a returned station of three rows with one pair of equal
\* radius and one pair of different radii, and so one duplicate warning.
C12_Witness ==
  /\ Returned
  /\ \E j \in ResultIx :
       /\ Len(Results[j].rows) = 3
       /\ CountWarnings(Results[j], WarnDuplicate) = 1
       /\ \E i \in SortedPairs(Results[j]) :
            FLt(Results[j].rows[i - 1].r, Results[j].rows[i].r)

VelocitiesOf(R) == [i \in 1..Len(R.rows) |-> R.rows[i].u]
HalfScan(R) == interpolateRhalf(RadiiOf(R), VelocitiesOf(R), R.Uc)
IsExampleRun ==
  /\ Returned
  /\ stations = initialStations
  /\ globals.pUnits = "kpa"
  /\ parseFloat(globals.rho) = DefaultRho

\* C13 as stated: for the example station (x/D = 8.5) in kPa mode with rho =
\* 1.204, Uc is the velocity of the r = 0 row, the first bracketing pair of the
\* scan is the (5 mm, 10 mm) pair and 0.005 m <= r1/2 <= 0.010 m.
C13_RhalfBetween5And10 ==
  IsExampleRun =>
    LET R == Results[1]
    IN /\ R.Uc = R.rows[1].u
       /\ HalfScan(R).method = "log" /\ HalfScan(R).at = 1
       /\ FLe(Fin(5000, -6), R.rHalf) /\ FLe(R.rHalf, Fin(1000, -5))

\* C13 amended: for the example station in kPa mode with rho = 1.204, Uc is
\* the velocity of the r = 0 row, the first bracketing pair of the ln(u) vs
\* r^2 scan is the (10 mm, 15 mm) pair and 0.010 m <= r1/2 <= 0.015 m.
C13_RhalfBetween10And15 ==
  IsExampleRun =>
    LET R == Results[1]
    IN /\ R.Uc = R.rows[1].u
       /\ HalfScan(R).method = "log" /\ HalfScan(R).at = 2
       /\ R.rHalf = HalfScan(R).val
       /\ FLe(Fin(1000, -5), R.rHalf) /\ FLe(R.rHalf, Fin(1500, -5))
       /\ FGt(R.rows[3].u, Target(R.Uc)) /\ FLt(R.rows[4].u, Target(R.Uc))

\* C13 witness: the example run returned its three stations, the first with
\* six rows at 0, 5, 10, 15, 20 and 30 mm and a resolved r1/2.
C13_Witness ==
  /\ IsExampleRun
  /\ Len(Results) = 3
  /\ Len(Results[1].rows) = 6
  /\ Results[1].rows[3].r = Fin(1000, -5)
  /\ Results[1].rows[4].r = Fin(1500, -5)
  /\ isFinite(Results[1].rHalf)

NoStationQualifies ==
  \A i \in 1..Len(stations) : Cardinality(ValidRows(stations[i])) < 2

\* C14: when no station of the batch has 2 valid rows (the empty batch
\* included), the call returns an empty results sequence and the settings it
\* was given as globals.
C14_EmptyBatch ==
  (called /\ NoStationQualifies) =>
    /\ ~ret.raised
    /\ ret.results = <<>>
    /\ ret.globals = globals

\* C14 witness: a call on a batch of two or more stations, each with fewer
\* than 2 valid rows, under settings whose density text does not parse.
C14_Witness ==
  /\ Returned
  /\ Len(stations) >= 2
  /\ NoStationQualifies
  /\ \E i \in 1..Len(stations) : Cardinality(ValidRows(stations[i])) = 1
  /\ isNaN(parseFloat(globals.rho))
  /\ ret.results = <<>>

Alone(st) == computeAll(<<st>>, globals)
SameRecord(R, Q) == [R EXCEPT !.trace.ref = 0] = [Q EXCEPT !.trace.ref = 0]

WithoutDroppedRows(st) ==
  [st EXCEPT !.rows = SelectSeq(st.rows,
                                LAMBDA row : /\ isFinite(parseFloat(row.r))
                                             /\ isFinite(parseFloat(row.dp)))]

\* C16: a returned station has one computed row per input row whose radius and
\* dp both parse to finite numbers, and its warnings are the warnings of the
\* same station without the rows that do not parse: a dropped row adds none.
C16_DroppedRowsSilent ==
  Returned =>
    \A j \in ResultIx :
      LET st == stations[PositionOf(Results[j].id)]
          clean == Alone(WithoutDroppedRows(st))
      IN /\ Len(Results[j].rows) = Cardinality(ValidRows(st))
         /\ Len(clean.results) = 1
         /\ Results[j].trace.warnings = clean.results[1].trace.warnings

\* C16 witness: a returned station with 2 computed rows out of 3 input rows,
\* the dropped row between the two kept ones.
C16_Witness ==
  /\ Returned
  /\ \E j \in ResultIx :
       LET st == stations[PositionOf(Results[j].id)]
       IN /\ Len(st.rows) = 3
          /\ ValidRows(st) = {1, 3}
          /\ Len(Results[j].rows) = 2

\* the full step trace of R: the three steps of the settings, the steps of Uc,
\* r1/2, mdot and I, one segment per consecutive pair of rows in each
\* integral, and the two steps of every row
TraceRetained(R) ==
  /\ Len(R.trace.globals) = 3
  /\ Len(R.trace.Uc) = 1
  /\ Len(R.trace.rhalf) >= 1
  /\ Len(R.trace.mdot) >= 1
  /\ Len(R.trace.I) >= 1
  /\ Len(R.trace.mdotSegments) = Len(R.rows) - 1
  /\ Len(R.trace.ISegments) = Len(R.rows) - 1
  /\ \A i \in 1..Len(R.rows) : Len(R.rows[i].psteps) = 2
FlagFlipped == [globals EXCEPT !.showSteps = ~@]

\* C17 as stated: the returned stations retain the full step trace exactly
\* when settings.showSteps is true.
C17_TraceRetainedIffShowSteps ==
  Returned =>
    \A j \in ResultIx : TraceRetained(Results[j]) <=> globals.showSteps

\* C17 amended: computeAll does not read showSteps: the returned stations
\* retain the full step trace whatever the flag is, the results are those of
\* the same call with the flag flipped, and the flag only decides whether the
\* report renders the step-by-step appendix.
C17_TraceAlwaysRetained ==
  Returned =>
    /\ \A j \in ResultIx : TraceRetained(Results[j])
    /\ ret.results = computeAll(stations, FlagFlipped).results
    /\ AppendixShown(ret) <=> globals.showSteps

\* C17 witness: a call with showSteps false returned a station with its full
\* trace and a warning in it.
C17_Witness ==
  /\ Returned
  /\ ~globals.showSteps
  /\ \E j \in ResultIx :
       /\ TraceRetained(Results[j])
       /\ Results[j].trace.warnings # <<>>

\* the two innermost rows of R have r^2 within 1e-12 of each other and the
\* smallest radius is not 0
InnermostIndistinguishable(R) ==
  /\ ~FEq(R.rows[1].r, Zero)
  /\ FLt(FAbs(Sub(Mul(R.rows[1].r, R.rows[1].r), Mul(R.rows[2].r, R.rows[2].r))), Eps12)

\* C18: when the smallest radius is not 0 and the two innermost rows have r^2
\* within 1e-12 of each other, Uc comes from the linear fallback and is a
\* finite number, also when the two rows are at the same radius.
C18_LinearFallbackFinite ==
  Returned =>
    \A j \in ResultIx :
      InnermostIndistinguishable(Results[j]) =>
        /\ Results[j].trace.Uc[1].label = "Centerline (linear fallback)"
        /\ isFinite(Results[j].Uc)

\* some consecutive pair of the ln(u) vs r^2 scan of R brackets the target
LogBrackets(R) ==
  LET t == Transformed(RadiiOf(R), VelocitiesOf(R))
      target_lnu == Log(Target(R.Uc))
  IN \E i \in 1..(Len(t) - 1) : FGe(t[i].lnu, target_lnu) /\ FLe(t[i + 1].lnu, target_lnu)

\* some consecutive pair of the u vs r scan of R brackets the target
LinearBrackets(R) ==
  \E i \in 1..(Len(R.rows) - 1) :
    FGe(R.rows[i].u, Target(R.Uc)) /\ FLe(R.rows[i + 1].u, Target(R.Uc))

\* C19: r1/2 is a finite number whenever some consecutive pair brackets the
\* target in the ln(u) vs r^2 scan or in the u vs r scan, and NaN whenever no
\* pair does, for every Uc (Uc <= 0 included) and for a pair whose two values
\* both equal the target.
C19_NaNIffNoBracket ==
  Returned =>
    \A j \in ResultIx :
      IF LogBrackets(Results[j]) \/ LinearBrackets(Results[j])
      THEN isFinite(Results[j].rHalf)
      ELSE isNaN(Results[j].rHalf)

\* r1/2 of R is a number produced by the ln(u) vs r^2 method
ByLogMethod(R) ==
  isFinite(R.rHalf) /\ R.trace.rhalf[1].label = "Half-velocity radius (interp.)"

\* rows a and b of R bracket the target in ln(u) and r1/2 of R is the
\* interpolation between them
LogInterpolatedBetween(R, a, b) ==
  LET pa == TransformedPoint(R.rows[a].r, R.rows[a].u)
      pb == TransformedPoint(R.rows[b].r, R.rows[b].u)
      target_lnu == Log(Target(R.Uc))
  IN /\ isFinite(pa.lnu) /\ isFinite(pb.lnu)
     /\ FGe(pa.lnu, target_lnu) /\ FLe(pb.lnu, target_lnu)
     /\ R.rHalf = LogInterpolate(pa, pb, target_lnu)

\* the first pair of adjacent sorted rows of R that brackets the target in u
\* is a row of positive velocity followed by a row of zero velocity
CrossingIntoZeroRow(R) ==
  \E i \in 1..(Len(R.rows) - 1) :
    /\ FGe(R.rows[i].u, Target(R.Uc)) /\ FLe(R.rows[i + 1].u, Target(R.Uc))
    /\ FGt(R.rows[i].u, Zero) /\ FEq(R.rows[i + 1].u, Zero)
    /\ \A k \in 1..(i - 1) :
         ~(FGe(R.rows[k].u, Target(R.Uc)) /\ FLe(R.rows[k + 1].u, Target(R.Uc)))

\* C20 as stated: when r1/2 comes from the ln(u) vs r^2 method, it is
\* interpolated between two rows adjacent in the sorted row sequence and lies
\* between their radii; a crossing between a row of positive velocity and a
\* row of zero velocity is not resolved by that method.
C20_LogScanAdjacentRows ==
  Returned =>
    \A j \in ResultIx :
      LET R == Results[j]
      IN /\ ByLogMethod(R) =>
              \E i \in 1..(Len(R.rows) - 1) :
                /\ LogInterpolatedBetween(R, i, i + 1)
                /\ FLe(R.rows[i].r, R.rHalf) /\ FLe(R.rHalf, R.rows[i + 1].r)
         /\ CrossingIntoZeroRow(R) => ~ByLogMethod(R)

\* C21: no returned station went through the degenerate centerline branch:
\* its warnings do not hold the cannot-extrapolate warning, trace.Uc holds
\* exactly one step and that step is not the assumed one; every returned
\* station has at least 2 rows.
C21_DegenerateBranchUnreachable ==
  Returned =>
    \A j \in ResultIx :
      /\ Len(Results[j].rows) >= 2
      /\ ~HasWarning(Results[j], WarnNoUc)
      /\ Len(Results[j].trace.Uc) = 1
      /\ Results[j].trace.Uc[1].label # "Centerline velocity (assumed)"

\* C21 witness: a returned station of exactly 2 rows without a row on the
\* axis, its Uc extrapolated from the two.
C21_Witness ==
  /\ Returned
  /\ \E j \in ResultIx :
       /\ Len(Results[j].rows) = 2
       /\ ~FEq(Results[j].rows[1].r, Zero)
       /\ Results[j].trace.Uc[1].label = "Centerline (quadratic extrap.)"
       /\ isFinite(Results[j].Uc)

\* the sum of the area_i of the first n segments, added in their order
RECURSIVE SumAreas(_, _)
SumAreas(segs, n) ==
  IF n = 0 THEN Zero ELSE Add(SumAreas(segs, n - 1), segs[n].area_i)

\* segs holds one segment per consecutive pair of the rows of R, in order,
\* with total the trapezoid total over the integrand h
SegmentsOf(R, segs, h(_), total) ==
  /\ Len(segs) = Len(R.rows) - 1
  /\ \A k \in 1..Len(segs) :
       /\ segs[k].i = k - 1
       /\ segs[k].r_i = R.rows[k].r /\ segs[k].r_ip1 = R.rows[k + 1].r
       /\ segs[k].u_i = R.rows[k].u /\ segs[k].u_ip1 = R.rows[k + 1].u
       /\ segs[k].h_i = h(R.rows[k]) /\ segs[k].h_ip1 = h(R.rows[k + 1])
       /\ segs[k].dr = Sub(segs[k].r_ip1, segs[k].r_i)
       /\ FGe(segs[k].dr, Zero)
       /\ segs[k].area_i = Mul(Mul(Half, Add(segs[k].h_i, segs[k].h_ip1)), segs[k].dr)
       /\ k < Len(segs) => segs[k].r_ip1 = segs[k + 1].r_i
  /\ total = Mul(Mul(Num(2), PI), SumAreas(segs, Len(segs)))

\* C22: a returned station of n rows has n-1 segments in trace.mdotSegments
\* and in trace.ISegments, with indices 0..n-2 in order; segment i spans the
\* sorted rows i and i+1, its dr is r_ip1 - r_i and is >= 0, its area is
\* half the sum of the two integrand values times dr, and the trapezoid total
\* is 2*pi times the sum of the areas.
C22_Segments ==
  Returned =>
    \A j \in ResultIx :
      LET R == Results[j]
      IN /\ SegmentsOf(R, R.trace.mdotSegments,
                       LAMBDA row : Mul(Mul(R.rho, row.u), row.r),
                       R.trace.mdot[1].result)
         /\ SegmentsOf(R, R.trace.ISegments,
                       LAMBDA row : Mul(Mul(Mul(R.rho, row.u), row.u), row.r),
                       R.trace.I[1].result)

\* C22 witness: a returned station of three rows at three radii with two
\* segments of positive area.
C22_Witness ==
  /\ Returned
  /\ \E j \in ResultIx :
       /\ Len(Results[j].rows) = 3
       /\ Len(Results[j].trace.mdotSegments) = 2
       /\ FGt(Results[j].trace.mdotSegments[1].area_i, Zero)
       /\ FGt(Results[j].trace.mdotSegments[2].area_i, Zero)
       /\ FGt(Results[j].trace.mdotSegments[2].dr, Zero)

\* the phase of the analysis that pushes the warning w
Phase(w) ==
  IF w \in {WarnDuplicate, WarnNonMonotonic} THEN 1
  ELSE IF w = WarnNoUc THEN 2
  ELSE IF w = WarnNoRhalf THEN 3
  ELSE 4

\* the duplicate and non-monotonic warnings of the first n rows of R, pair by
\* pair in ascending row index
RECURSIVE ProfileWarningsExpected(_, _)
ProfileWarningsExpected(R, n) ==
  IF n < 2 THEN <<>>
  ELSE (ProfileWarningsExpected(R, n - 1)
          \o (IF FEq(R.rows[n].r, R.rows[n - 1].r) THEN <<WarnDuplicate>> ELSE <<>>))
          \o (IF FGt(R.rows[n].u, R.rows[n - 1].u) THEN <<WarnNonMonotonic>> ELSE <<>>)

WarningAt(R, w) == {i \in 1..Len(R.trace.warnings) : R.trace.warnings[i] = w}

\* C23: the warnings of a returned station are in phase order: first the
\* duplicate and non-monotonic warnings by ascending row index, then the r1/2
\* unresolved warning, then the tail skipped warning; the r1/2 unresolved
\* warning is always followed by the tail skipped warning; the tail skipped
\* warning comes without the r1/2 unresolved warning only when r1/2 is
\* exactly 0.
C23_WarningOrder ==
  Returned =>
    \A j \in ResultIx :
      LET R == Results[j]
          w == R.trace.warnings
          profile == ProfileWarningsExpected(R, Len(R.rows))
      IN /\ \A a, b \in 1..Len(w) : a < b => Phase(w[a]) <= Phase(w[b])
         /\ Len(w) >= Len(profile)
         /\ SubSeq(w, 1, Len(profile)) = profile
         /\ \A a \in (Len(profile) + 1)..Len(w) : Phase(w[a]) >= 3
         /\ Cardinality(WarningAt(R, WarnNoRhalf)) <= 1
         /\ Cardinality(WarningAt(R, WarnNoTail)) <= 1
         /\ HasWarning(R, WarnNoRhalf) =>
              \E a \in WarningAt(R, WarnNoRhalf) : \E b \in WarningAt(R, WarnNoTail) : a < b
         /\ (HasWarning(R, WarnNoTail) /\ ~HasWarning(R, WarnNoRhalf)) => R.rHalf = Zero

\* the fields of a returned station that C24 calls its numeric results
NumericResults(R) ==
  [rows |-> R.rows, Uc |-> R.Uc, rHalf |-> R.rHalf, mdot |-> R.mdot, I |-> R.I,
   collapse |-> R.collapse, rmse |-> R.rmse, warnings |-> R.trace.warnings]

\* other texts for the variac and port1 of every station, and other settings
\* for the contraction ratio, the nozzle diameter and showSteps
AuxiliaryTexts == { [variac |-> T_9, port1 |-> T_5, contraction |-> T_2, Dcm |-> T_5],
                    [variac |-> T_2, port1 |-> T_m1, contraction |-> T_x, Dcm |-> T_10] }
OtherStations(a) ==
  [i \in 1..Len(stations) |-> [stations[i] EXCEPT !.variac = a.variac, !.port1 = a.port1]]
OtherSettings(a) ==
  [globals EXCEPT !.contraction = a.contraction, !.Dcm = a.Dcm, !.showSteps = ~@]
OtherRun(a) == computeAll(OtherStations(a), OtherSettings(a))

\* C24: a run that differs only in the stations' variac and port1 texts and in
\* the settings' contraction ratio, nozzle diameter and showSteps flag returns
\* the same stations with the same rows, Uc, r1/2, mdot, I, collapse, RMSE and
\* warnings.
C24_AuxiliaryFieldsUnused ==
  Returned =>
    \A a \in AuxiliaryTexts :
      LET other == OtherRun(a)
      IN /\ ~other.raised
         /\ Len(other.results) = Len(Results)
         /\ \A j \in ResultIx :
              /\ other.results[j].id = Results[j].id
              /\ NumericResults(other.results[j]) = NumericResults(Results[j])

\* a returned station with a positive finite mass flow and a resolved r1/2,
\* whose record differs in the other run in D, variac and port1
C24_Witness ==
  /\ Returned
  /\ \E j \in ResultIx :
       /\ isFinite(Results[j].mdot) /\ FGt(Results[j].mdot, Zero)
       /\ isFinite(Results[j].rHalf) /\ Len(Results[j].collapse) > 0
       /\ \A a \in AuxiliaryTexts :
            LET Q == OtherRun(a).results[j]
            IN /\ Q.D # Results[j].D
               /\ Q.variac # Results[j].variac
               /\ Q.port1 # Results[j].port1
               /\ NumericResults(Q) = NumericResults(Results[j])

\* the radii of the valid rows of a station in the order of the input
InputRadii(st) == [i \in 1..Len(ParsedRows(st)) |-> mm2m(ParsedRows(st)[i].rmm)]

NothingDisplayed == computedResults = Null
EmptyDisplayed == ~NothingDisplayed /\ Len(computedResults.results) = 0

\* C26: a run of handleCompute whose batch yields no results shows the message
\* and leaves the displayed result set as it was; the displayed result set
\* changes only to a non-empty one, and is never an empty one.
C26_EmptyBatchReported ==
  /\ [](~EmptyDisplayed)
  /\ [][/\ (called' /\ ~ret'.raised /\ Len(ret'.results) = 0)
             => (alert' = EmptyBatchMessage /\ computedResults' = computedResults)
        /\ computedResults' # computedResults
             => (called' /\ computedResults' = ret' /\ Len(ret'.results) > 0)]_vars

\* handleCompute has just found no station to return and shown the message,
\* with the result set of an earlier run still displayed
C26_Witness ==
  /\ called /\ ~ret.raised /\ Len(ret.results) = 0
  /\ alert = EmptyBatchMessage
  /\ ~NothingDisplayed /\ Len(computedResults.results) = 3

\* the same with nothing computed before
C26_WitnessNull ==
  /\ called /\ ~ret.raised /\ Len(ret.results) = 0
  /\ alert = EmptyBatchMessage
  /\ NothingDisplayed

====
